---- MODULE Spec2Model ----
(***************************************************************************)
(* Fixed-capacity garbage-collected heaps of src/src/lib.rs:               *)
(* RamHeap (bump region), BlockTable (block index -> descriptor),          *)
(* OnceAndDoneHeap, CopyingHeap and GenerationalHeap.                      *)
(* Every operator below is a transliteration of the Rust function of the   *)
(* same name; an operation that mutates `self` returns the new value of    *)
(* the mutated object next to its Result.  A value computed once and used  *)
(* several times in the Rust code is passed to an operator that models     *)
(* the rest of the function.                                               *)
(***************************************************************************)
EXTENDS Integers, Sequences, FiniteSets, TLC

\* Const generics of the heaps, instantiated small.
HEAP_SIZE == 2
MAX_BLOCKS == 2
MAX_COPIES == 1

\* Width of usize in bits, instantiated small: usize arithmetic overflows
\* past USIZE_MAX.
USIZE_BITS == 3
USIZE_MAX == 2^USIZE_BITS - 1

\* Largest word a client stores (words are u64 in the source).
MaxWord == 1

\* A malloc call is explored only while it leaves every num_times_copied at
\* most MaxCopied (the counter grows with every collection a block survives).
MaxCopied == 3

\* Number of calls (malloc, store, load) a client makes on one heap.
MaxCalls == 6

\* A client of a GenerationalHeap may make one more call, a malloc: the
\* number of calls up to which it calls malloc.  Two blocks of the same age
\* reach promotion with garbage in the active gen1 space only at the
\* seventh call.
MaxGenCalls == 7

\* Number of malloc calls of a client that only allocates from a
\* GenerationalHeap: a block survives two calls of collect_gen_1 at the
\* ninth call at the earliest.
MaxAllocCalls == 10

Blocks == 0 .. (MAX_BLOCKS - 1)
Addrs == 0 .. (HEAP_SIZE - 1)
Words == 0 .. MaxWord
\* Request sizes a client passes to malloc: zero, fitting, too large, and
\* the largest usize.
Sizes == (0 .. (HEAP_SIZE + 1)) \cup {USIZE_MAX}

(***************************************************************************)
(* State                                                                   *)
(*   kind: which of the three heaps the client constructed                *)
(*   overflow_checks: the build's overflow-checks setting; an overflowing  *)
(*     usize addition panics when it is on and wraps when it is off        *)
(*   heap, heaps/active_heap, gen_0/gen_1/active_gen_0/active_gen_1:       *)
(*     the RamHeaps of OnceAndDoneHeap, CopyingHeap, GenerationalHeap      *)
(*   block_info: the heap's BlockTable                                     *)
(*   ret: the last call, its arguments and what it returned                *)
(*   gcs: the collections run by the last call, in order                   *)
(*   panicked: a call panicked; nothing runs afterwards                    *)
(*   minted[b]: len of the pointer malloc returned for block b, while      *)
(*     every trace since that malloc has marked b; 0 otherwise             *)
(*   shadow[b][o]: the last word stored at offset o of b since then, or -1 *)
(*   calls: the number of calls made so far                                *)
(*   loc[b]: <<generation, index>> of the RamHeap the words of block b     *)
(*     were last allocated or copied into (<<0, 0>> for an empty slot)     *)
(***************************************************************************)
VARIABLES kind, overflow_checks, heap, heaps, active_heap, gen_0, gen_1,
          active_gen_0, active_gen_1, block_info, ret, gcs, panicked, minted,
          shadow, calls, loc

vars == <<kind, overflow_checks, heap, heaps, active_heap, gen_0, gen_1,
          active_gen_0, active_gen_1, block_info, ret, gcs, panicked, minted,
          shadow, calls, loc>>

(***************************************************************************)
(* usize addition: x + y with x, y in 0 .. USIZE_MAX.                      *)
(***************************************************************************)
\* The sum x does not fit and the build checks for it: the addition panics.
Overflows(x) == overflow_checks /\ x > USIZE_MAX
\* The value of a sum x that did not panic.
Wrap(x) == x % (USIZE_MAX + 1)

(***************************************************************************)
(* Result<_, HeapError>.  One record shape for every value so that any two *)
(* results can be compared: kind is "Ok" or the HeapError variant, a/b/c   *)
(* are the payload in declaration order.                                   *)
(***************************************************************************)
Res(k, x, y, z) == [kind |-> k, a |-> x, b |-> y, c |-> z]
Ok(v) == Res("Ok", v, 0, 0)
OkUnit == Res("Ok", 0, 0, 0)
ZeroSizeRequest == Res("ZeroSizeRequest", 0, 0, 0)
OutOfMemory == Res("OutOfMemory", 0, 0, 0)
OutOfBlocks == Res("OutOfBlocks", 0, 0, 0)
IllegalBlock(x, y) == Res("IllegalBlock", x, y, 0)
UnallocatedBlock(x) == Res("UnallocatedBlock", x, 0, 0)
OffsetTooBig(x, y, z) == Res("OffsetTooBig", x, y, z)
MisalignedPointer(x, y, z) == Res("MisalignedPointer", x, y, z)
IllegalAddress(x, y) == Res("IllegalAddress", x, y, 0)
\* A Rust panic (unwrap of None, index out of bounds, arithmetic overflow):
\* the call never returns.
Panic == Res("Panic", 0, 0, 0)
IsOk(r) == r.kind = "Ok"
\* Err(_): an error value, as opposed to Ok and to a panic.
IsErr(r) == r.kind # "Ok" /\ r.kind # "Panic"

\* gc_headers::Pointer: block_num(), len(), offset().
Pointer(blk, ln, off) == [block_num |-> blk, len |-> ln, offset |-> off]
\* Pointer::new(block, len) has offset 0.
PointerNew(blk, ln) == Pointer(blk, ln, 0)
\* Ok(Pointer::new(block, len)) as a result record.
OkPointer(blk, ln) == Res("Ok", blk, ln, 0)

(***************************************************************************)
(* BlockInfo and Option<BlockInfo>                                         *)
(***************************************************************************)
None == [some |-> FALSE, start |-> 0, size |-> 0, num_times_copied |-> 0]
BlockInfo(st, sz, ntc) ==
  [some |-> TRUE, start |-> st, size |-> sz, num_times_copied |-> ntc]

\* BlockTable::new
BlockTableNew == [b \in Blocks |-> None]

\* BlockTable::blocks_in_use
blocks_in_use(table) == {b \in Blocks : table[b].some}

\* A search that returns the highest numbered unused block.
available_block_Highest(table) ==
  IF \E b \in Blocks : ~table[b].some
  THEN CHOOSE b \in Blocks :
         /\ ~table[b].some
         /\ \A c \in Blocks : ~table[c].some => b >= c
  ELSE -1

\* BlockTable::available_block: the lowest numbered unused block, -1 for None.
available_block(table) ==
  IF \E b \in Blocks : ~table[b].some
  THEN CHOOSE b \in Blocks :
         /\ ~table[b].some
         /\ \A c \in Blocks : ~table[c].some => b <= c
  ELSE -1

\* address with the len check ahead of the offset check.
address_LenFirst(table, p) ==
  IF p.block_num >= MAX_BLOCKS
  THEN IllegalBlock(p.block_num, MAX_BLOCKS - 1)
  ELSE IF ~table[p.block_num].some
  THEN UnallocatedBlock(p.block_num)
  ELSE IF p.len # table[p.block_num].size
  THEN MisalignedPointer(p.len, table[p.block_num].size, p.block_num)
  ELSE IF p.offset >= table[p.block_num].size
  THEN OffsetTooBig(p.offset, p.block_num, table[p.block_num].size)
  ELSE IF Overflows(table[p.block_num].start + p.offset)
  THEN Panic
  ELSE Ok(Wrap(table[p.block_num].start + p.offset))

\* address without the comparison of the pointer's len with the block's size.
address_NoLen(table, p) ==
  IF p.block_num >= MAX_BLOCKS
  THEN IllegalBlock(p.block_num, MAX_BLOCKS - 1)
  ELSE IF ~table[p.block_num].some
  THEN UnallocatedBlock(p.block_num)
  ELSE IF p.offset >= table[p.block_num].size
  THEN OffsetTooBig(p.offset, p.block_num, table[p.block_num].size)
  ELSE IF Overflows(table[p.block_num].start + p.offset)
  THEN Panic
  ELSE Ok(Wrap(table[p.block_num].start + p.offset))

\* BlockTable::address
address(table, p) ==
  IF p.block_num >= MAX_BLOCKS
  THEN IllegalBlock(p.block_num, MAX_BLOCKS - 1)
  ELSE IF ~table[p.block_num].some
  THEN UnallocatedBlock(p.block_num)
  ELSE IF p.offset >= table[p.block_num].size
  THEN OffsetTooBig(p.offset, p.block_num, table[p.block_num].size)
  ELSE IF p.len # table[p.block_num].size
  THEN MisalignedPointer(p.len, table[p.block_num].size, p.block_num)
  ELSE IF Overflows(table[p.block_num].start + p.offset)
  THEN Panic
  ELSE Ok(Wrap(table[p.block_num].start + p.offset))

(***************************************************************************)
(* RamHeap                                                                 *)
(***************************************************************************)
RamHeapNew == [heap |-> [x \in Addrs |-> 0], next_address |-> 0]

\* RamHeap::clear
RamClear(h) == [h EXCEPT !.next_address = 0]

RamLoad_Capacity(h, addr) ==
  IF addr >= HEAP_SIZE
  THEN IllegalAddress(addr, h.next_address)
  ELSE Ok(h.heap[addr])

\* RamHeap::load
RamLoad(h, addr) ==
  IF addr >= h.next_address
  THEN IllegalAddress(addr, h.next_address)
  ELSE Ok(h.heap[addr])

RamStore_Bump(h, addr, value) ==
  IF addr > HEAP_SIZE
  THEN [res |-> IllegalAddress(addr, HEAP_SIZE), h |-> h]
  ELSE IF addr \notin Addrs
  THEN [res |-> Panic, h |-> h]
  ELSE [res |-> OkUnit,
        h |-> [heap |-> [h.heap EXCEPT ![addr] = value],
               next_address |-> IF addr >= h.next_address THEN addr + 1
                                ELSE h.next_address]]

\* RamHeap::store: the guard is `address > HEAP_SIZE`, so address ==
\* HEAP_SIZE reaches the array write and panics on the bounds check.
RamStore(h, addr, value) ==
  IF addr > HEAP_SIZE
  THEN [res |-> IllegalAddress(addr, HEAP_SIZE), h |-> h]
  ELSE IF addr \notin Addrs
  THEN [res |-> Panic, h |-> h]
  ELSE [res |-> OkUnit, h |-> [h EXCEPT !.heap[addr] = value]]

\* RamHeap::malloc: ad = next_address + num_words - 1 in usize.
RamMalloc(h, num_words) ==
  IF num_words <= 0
  THEN [res |-> ZeroSizeRequest, h |-> h]
  ELSE IF Overflows(h.next_address + num_words)
  THEN [res |-> Panic, h |-> h]
  ELSE IF Wrap(h.next_address + num_words - 1) >= HEAP_SIZE
  THEN [res |-> OutOfMemory, h |-> h]
  ELSE [res |-> Ok(h.next_address),
        h |-> [h EXCEPT !.next_address =
                          Wrap(h.next_address + num_words - 1) + 1]]

\* RamHeap::copy, dest.store(d + i, value)? for the loaded value l.
StoreLoaded(dest, to, l) ==
  IF ~IsOk(l)
  THEN [res |-> l, h |-> dest]
  ELSE IF Overflows(to)
  THEN [res |-> Panic, h |-> dest]
  ELSE RamStore(dest, Wrap(to), l.a)

CopyWord_Zero(src, dest, from, to) ==
  IF Overflows(from)
  THEN [res |-> Panic, h |-> dest]
  ELSE StoreLoaded(dest, to,
                   IF IsOk(RamLoad(src, Wrap(from))) THEN Ok(0)
                   ELSE RamLoad(src, Wrap(from)))

\* RamHeap::copy, one iteration of the word loop: from = src.start + i,
\* to = d + i.
CopyWord(src, dest, from, to) ==
  IF Overflows(from)
  THEN [res |-> Panic, h |-> dest]
  ELSE StoreLoaded(dest, to, RamLoad(src, Wrap(from)))

\* The word loop of RamHeap::copy, from index i on: load from src, store to
\* dest, stop at the first error (`?`).  st is what iteration i returned.
RECURSIVE CopyWords(_, _, _, _, _, _)
CopyWordsNext(src, st, s, d, i, size) ==
  IF ~IsOk(st.res)
  THEN [res |-> st.res, dest |-> st.h]
  ELSE CopyWords(src, st.h, s, d, i + 1, size)

CopyWords(src, dest, s, d, i, size) ==
  IF i >= size
  THEN [res |-> OkUnit, dest |-> dest]
  ELSE CopyWordsNext(src, CopyWord(src, dest, s + i, d + i), s, d, i, size)

\* RamHeap::copy after the word loop returned w: the new BlockInfo.
CopyDone_SameCount(info, d, w) ==
  [res |-> w.res,
   info |-> BlockInfo(d, info.size, info.num_times_copied),
   dest |-> w.dest]

CopyDone(info, d, w) ==
  [res |-> w.res,
   info |-> BlockInfo(d, info.size, info.num_times_copied + 1),
   dest |-> w.dest]

\* RamHeap::copy after dest.malloc(src.size) returned m.
CopyInto(src, info, m) ==
  IF ~IsOk(m.res)
  THEN [res |-> m.res, info |-> info, dest |-> m.h]
  ELSE CopyDone(info, m.res.a,
                CopyWords(src, m.h, info.start, m.res.a, 0, info.size))

\* RamHeap::copy: res is the Result, info the returned BlockInfo when Ok,
\* dest the destination afterwards.
RamCopy(src, info, dest) == CopyInto(src, info, RamMalloc(dest, info.size))

(***************************************************************************)
(* A collection run by a malloc call is recorded as                        *)
(*   [pre, marks, post, res, old, evac, olds, tried]                       *)
(* pre/post: the heap before and after, marks: the tracer's output,        *)
(* res: what the collection returned, old: whether collect_gen_1 ran,      *)
(* evac: the calls of RamHeap::copy that returned Ok, in order, each as    *)
(* Evac(block, gen, to): block was copied into space `to` of generation    *)
(* gen (0 for the spaces of a CopyingHeap); olds: how many times           *)
(* collect_gen_1 was called; tried: the heap as the copy that failed found *)
(* it (the heap left behind, if none failed).                              *)
(***************************************************************************)
GcRec(pre, marks, post, res, old, evac, olds, tried) ==
  [pre |-> pre, marks |-> marks, post |-> post, res |-> res, old |-> old,
   evac |-> evac, olds |-> olds, tried |-> tried]

Evac(block, gen, to) == [block |-> block, gen |-> gen, to |-> to]

\* The result l of the rest of a collection, with the copies es that
\* preceded it.
After(es, l) == [l EXCEPT !.evac = es \o @]

(***************************************************************************)
(* OnceAndDoneHeap: o = [heap, block_info]                                 *)
(***************************************************************************)
OnceNew == [heap |-> RamHeapNew, block_info |-> BlockTableNew]

\* OnceAndDoneHeap::load
OnceLoad(o, p) ==
  LET a == address(o.block_info, p)
  IN IF IsOk(a) THEN RamLoad(o.heap, a.a) ELSE a

\* OnceAndDoneHeap::store
OnceStore(o, p, value) ==
  LET a == address(o.block_info, p)
  IN IF IsOk(a)
     THEN LET st == RamStore(o.heap, a.a, value)
          IN [res |-> st.res, h |-> [o EXCEPT !.heap = st.h]]
     ELSE [res |-> a, h |-> o]

OnceMalloc_MemFirst(o, num_words) ==
  LET block_num == available_block(o.block_info)
      m == RamMalloc(o.heap, num_words)
  IN IF ~IsOk(m.res)
     THEN [res |-> m.res, h |-> o, gcs |-> <<>>]
     ELSE IF block_num = -1
     THEN [res |-> OutOfBlocks, h |-> [o EXCEPT !.heap = m.h], gcs |-> <<>>]
     ELSE [res |-> OkPointer(block_num, num_words),
           h |-> [heap |-> m.h,
                  block_info |-> [o.block_info EXCEPT ![block_num] =
                                    BlockInfo(m.res.a, num_words, 0)]],
           gcs |-> <<>>]

\* OnceAndDoneHeap::malloc
OnceMalloc(o, num_words) ==
  LET block_num == available_block(o.block_info)
  IN IF block_num = -1
     THEN [res |-> OutOfBlocks, h |-> o, gcs |-> <<>>]
     ELSE LET m == RamMalloc(o.heap, num_words)
          IN IF ~IsOk(m.res)
             THEN [res |-> m.res, h |-> o, gcs |-> <<>>]
             ELSE [res |-> OkPointer(block_num, num_words),
                   h |-> [heap |-> m.h,
                          block_info |-> [o.block_info EXCEPT ![block_num] =
                                            BlockInfo(m.res.a, num_words, 0)]],
                   gcs |-> <<>>]

(***************************************************************************)
(* CopyingHeap: c = [heaps, block_info, active_heap]                       *)
(***************************************************************************)
CopyingNew ==
  [heaps |-> [i \in 0 .. 1 |-> RamHeapNew],
   block_info |-> BlockTableNew,
   active_heap |-> 0]

\* A collector that leaves the descriptor of an unmarked block in place.
ClearSlot_Keep(table, i) == table

\* CopyingHeap::collect, `self.block_info[i] = None`.
ClearSlot(table, i) == [table EXCEPT ![i] = None]

\* The block loop of CopyingHeap::collect from index i on.  marks is the set
\* of indices the tracer set to true.  unwrap() of an empty slot panics;
\* an error of copy leaves the loop through `?`.  cp is what src.copy
\* returned for block i.
RECURSIVE CopyingCollectLoop(_, _, _)
CopyingCollectCopied(c, marks, i, cp) ==
  IF ~IsOk(cp.res)
  THEN [res |-> cp.res,
        h |-> [c EXCEPT !.heaps[(c.active_heap + 1) % 2] = cp.dest],
        evac |-> <<>>]
  ELSE After(<<Evac(i, 0, (c.active_heap + 1) % 2)>>,
         CopyingCollectLoop(
           [c EXCEPT !.heaps[(c.active_heap + 1) % 2] = cp.dest,
                     !.block_info[i] = cp.info],
           marks, i + 1))

CopyingCollectLoop(c, marks, i) ==
  IF i >= MAX_BLOCKS
  THEN [res |-> OkUnit, h |-> c, evac |-> <<>>]
  ELSE IF i \in marks
  THEN IF ~c.block_info[i].some
       THEN [res |-> Panic, h |-> c, evac |-> <<>>]
       ELSE CopyingCollectCopied(c, marks, i,
              RamCopy(c.heaps[c.active_heap], c.block_info[i],
                      c.heaps[(c.active_heap + 1) % 2]))
  ELSE CopyingCollectLoop([c EXCEPT !.block_info = ClearSlot(c.block_info, i)],
                          marks, i + 1)

\* CopyingHeap::collect after the block loop returned l: clear the old
\* active space and swap.
CopyingCollectEnd(c, l) ==
  IF ~IsOk(l.res)
  THEN l
  ELSE [res |-> OkUnit,
        h |-> [l.h EXCEPT
                 !.heaps[c.active_heap] = RamClear(l.h.heaps[c.active_heap]),
                 !.active_heap = (c.active_heap + 1) % 2],
        evac |-> l.evac]

\* CopyingHeap::collect
CopyingCollect(c, marks) ==
  CopyingCollectEnd(c, CopyingCollectLoop(c, marks, 0))

\* CopyingHeap::load
CopyingLoad(c, p) ==
  LET a == address(c.block_info, p)
  IN IF IsOk(a) THEN RamLoad(c.heaps[c.active_heap], a.a) ELSE a

\* CopyingHeap::store
CopyingStore(c, p, value) ==
  LET a == address(c.block_info, p)
  IN IF IsOk(a)
     THEN LET st == RamStore(c.heaps[c.active_heap], a.a, value)
          IN [res |-> st.res, h |-> [c EXCEPT !.heaps[c.active_heap] = st.h]]
     ELSE [res |-> a, h |-> c]

\* CopyingHeap::malloc, the end: m is what the last malloc of the active
\* space returned; an error becomes OutOfMemory, success installs the block.
CopyingInstall(c, num_words, avail_block, log, m) ==
  IF m.res = Panic
  THEN [res |-> Panic, h |-> c, gcs |-> log]
  ELSE IF ~IsOk(m.res)
  THEN [res |-> OutOfMemory, h |-> c, gcs |-> log]
  ELSE [res |-> OkPointer(avail_block, num_words),
        h |-> [c EXCEPT !.heaps[c.active_heap] = m.h,
                        !.block_info[avail_block] =
                           BlockInfo(m.res.a, num_words, 0)],
        gcs |-> log]

CopyingRetry_Again(c, num_words, marks, avail_block, log, g) ==
  IF ~IsOk(g.res)
  THEN [res |-> g.res, h |-> g.h,
        gcs |-> Append(log, GcRec(c, marks, g.h, g.res, FALSE, g.evac, 0,
                                  g.h))]
  ELSE LET g2 == CopyingCollect(g.h, marks)
       IN CopyingInstall(g2.h, num_words, avail_block,
                         Append(Append(log, GcRec(c, marks, g.h, g.res, FALSE,
                                                  g.evac, 0, g.h)),
                                GcRec(g.h, marks, g2.h, g2.res, FALSE,
                                      g2.evac, 0, g2.h)),
                         RamMalloc(g2.h.heaps[g2.h.active_heap], num_words))

\* CopyingHeap::malloc after the collection run for want of memory returned
\* g: `?`, then the second malloc of the active space.
CopyingRetry(c, num_words, marks, avail_block, log, g) ==
  IF ~IsOk(g.res)
  THEN [res |-> g.res, h |-> g.h,
        gcs |-> Append(log, GcRec(c, marks, g.h, g.res, FALSE, g.evac, 0, g.h))]
  ELSE CopyingInstall(g.h, num_words, avail_block,
                      Append(log, GcRec(c, marks, g.h, g.res, FALSE, g.evac, 0,
                                        g.h)),
                      RamMalloc(g.h.heaps[g.h.active_heap], num_words))

\* CopyingHeap::malloc after the first malloc of the active space returned
\* m: Err(_) runs a collection.
CopyingTried(c, num_words, marks, avail_block, log, m) ==
  IF ~IsErr(m.res)
  THEN CopyingInstall(c, num_words, avail_block, log, m)
  ELSE CopyingRetry(c, num_words, marks, avail_block, log,
                    CopyingCollect(c, marks))

\* CopyingHeap::malloc, second half: the block index avail_block is chosen,
\* log holds the collection already run by this call.
CopyingMallocMem(c, num_words, marks, avail_block, log) ==
  CopyingTried(c, num_words, marks, avail_block, log,
               RamMalloc(c.heaps[c.active_heap], num_words))

\* CopyingHeap::malloc after the collection run for want of a block index
\* returned g.
CopyingCollected(c, num_words, marks, g) ==
  IF ~IsOk(g.res)
  THEN [res |-> g.res, h |-> g.h,
        gcs |-> <<GcRec(c, marks, g.h, g.res, FALSE, g.evac, 0, g.h)>>]
  ELSE IF available_block(g.h.block_info) = -1
  THEN [res |-> OutOfBlocks, h |-> g.h,
        gcs |-> <<GcRec(c, marks, g.h, g.res, FALSE, g.evac, 0, g.h)>>]
  ELSE CopyingMallocMem(g.h, num_words, marks,
                        available_block(g.h.block_info),
                        <<GcRec(c, marks, g.h, g.res, FALSE, g.evac, 0, g.h)>>)

CopyingMalloc_BlockFirst(c, num_words, marks) ==
  IF available_block(c.block_info) # -1
  THEN CopyingMallocMem(c, num_words, marks, available_block(c.block_info),
                        <<>>)
  ELSE CopyingCollected(c, num_words, marks, CopyingCollect(c, marks))

\* CopyingHeap::malloc
CopyingMalloc(c, num_words, marks) ==
  IF num_words = 0
  THEN [res |-> ZeroSizeRequest, h |-> c, gcs |-> <<>>]
  ELSE IF available_block(c.block_info) # -1
  THEN CopyingMallocMem(c, num_words, marks, available_block(c.block_info),
                        <<>>)
  ELSE CopyingCollected(c, num_words, marks, CopyingCollect(c, marks))

\* CopyingHeap::assert_no_strays
CopyingNoStrays(c) == c.heaps[(c.active_heap + 1) % 2].next_address = 0

(***************************************************************************)
(* GenerationalHeap:                                                       *)
(*   g = [gen_0, gen_1, block_info, active_gen_0, active_gen_1]            *)
(***************************************************************************)
GenNew ==
  [gen_0 |-> [i \in 0 .. 1 |-> RamHeapNew],
   gen_1 |-> [i \in 0 .. 1 |-> RamHeapNew],
   block_info |-> BlockTableNew,
   active_gen_0 |-> 0,
   active_gen_1 |-> 0]

\* GenerationalHeap::heap_and_gen_for: a = index of the space, b = generation.
heap_and_gen_for(g, block_num) ==
  IF block_num >= MAX_BLOCKS
  THEN IllegalBlock(block_num, MAX_BLOCKS - 1)
  ELSE IF g.block_info[block_num].some
  THEN IF g.block_info[block_num].num_times_copied > MAX_COPIES
       THEN Res("Ok", g.active_gen_1, 1, 0)
       ELSE Res("Ok", g.active_gen_0, 0, 0)
  ELSE UnallocatedBlock(block_num)

\* The block loop of GenerationalHeap::collect_gen_1 from index i on; cp is
\* what src.copy returned for block i.  The function is handed dest by
\* reference: its copies are logged with -1 for the index of the space.
RECURSIVE CollectGen1Loop(_, _, _, _, _)
CollectGen1Copied(blocks_used, table, src, i, cp) ==
  IF ~IsOk(cp.res)
  THEN [res |-> cp.res, table |-> table, src |-> src, dest |-> cp.dest,
        evac |-> <<>>]
  ELSE After(<<Evac(i, 1, -1)>>,
         CollectGen1Loop(blocks_used, [table EXCEPT ![i] = cp.info],
                         src, cp.dest, i + 1))

CollectGen1Loop(blocks_used, table, src, dest, i) ==
  IF i >= MAX_BLOCKS
  THEN [res |-> OkUnit, table |-> table, src |-> src, dest |-> dest,
        evac |-> <<>>]
  ELSE IF i \in blocks_used /\ table[i].some
          /\ table[i].num_times_copied > MAX_COPIES
  THEN CollectGen1Copied(blocks_used, table, src, i,
                         RamCopy(src, table[i], dest))
  ELSE CollectGen1Loop(blocks_used, table, src, dest, i + 1)

\* collect_gen_1 after the block loop returned l: src.clear().
CollectGen1End(l) ==
  IF ~IsOk(l.res) THEN l ELSE [l EXCEPT !.src = RamClear(l.src)]

\* GenerationalHeap::collect_gen_1
collect_gen_1(blocks_used, table, src, dest) ==
  CollectGen1End(CollectGen1Loop(blocks_used, table, src, dest, 0))

\* Phase one of collect_gen_0 from index i on: the descriptor of an unmarked
\* block is dropped.
RECURSIVE PruneDeadLoop(_, _, _)
PruneDeadLoop(table, marks, i) ==
  IF i >= MAX_BLOCKS
  THEN table
  ELSE PruneDeadLoop(IF i \notin marks /\ table[i].some
                     THEN [table EXCEPT ![i] = None]
                     ELSE table,
                     marks, i + 1)

\* Phase one of collect_gen_0: descriptors of unmarked blocks are dropped.
PruneDead(table, marks) == PruneDeadLoop(table, marks, 0)

\* The heap g with what collect_gen_1 (result old) did to the block table
\* and to the two gen1 spaces.
WithOld(g, old) ==
  [g EXCEPT !.block_info = old.table,
            !.gen_1[g.active_gen_1] = old.src,
            !.gen_1[(g.active_gen_1 + 1) % 2] = old.dest]

\* What the rest of collect_gen_0 returned (l), after a call of
\* collect_gen_1 that made the copies es: olds counts the calls of
\* collect_gen_1 the young collection made.
AfterOld(es, l) == [l EXCEPT !.evac = es \o @, !.olds = @ + 1]

\* The copies es of collect_gen_1, whose dest was gen1 space `to`.
RECURSIVE Into(_, _)
Into(es, to) ==
  IF es = <<>> THEN <<>>
  ELSE <<Evac(Head(es).block, 1, to)>> \o Into(Tail(es), to)

\* The evacuation loop of collect_gen_0 from index i on.  The active
\* indices change only after the loop; collected is the local
\* gen_1_collected.
RECURSIVE CollectGen0Loop(_, _, _, _)

\* The heap g with space `to` of generation gen (0 or 1) replaced.
WithSpace(g, gen, to, space) ==
  IF gen = 0
  THEN [g EXCEPT !.gen_0[to] = space]
  ELSE [g EXCEPT !.gen_1[to] = space]

\* Block i was copied into space `to` of generation gen and copy returned
\* cp: an error is returned, success updates the descriptor.
Gen0Copied(g, marks, i, collected, gen, to, cp) ==
  IF ~IsOk(cp.res)
  THEN [res |-> cp.res, h |-> WithSpace(g, gen, to, cp.dest),
        old |-> collected, evac |-> <<>>, olds |-> 0, tried |-> g]
  ELSE After(<<Evac(i, gen, to)>>,
         CollectGen0Loop([WithSpace(g, gen, to, cp.dest)
                            EXCEPT !.block_info[i] = cp.info],
                         marks, i + 1, collected))

\* collect_gen_1 returned old while block i was being promoted: `?`, then
\* the copy of block i into the inactive gen1 space.
Gen0AfterOld(g, marks, i, old) ==
  IF ~IsOk(old.res)
  THEN [res |-> old.res, h |-> WithOld(g, old), old |-> TRUE,
        evac |-> Into(old.evac, (g.active_gen_1 + 1) % 2), olds |-> 1,
        tried |-> WithOld(g, old)]
  ELSE AfterOld(Into(old.evac, (g.active_gen_1 + 1) % 2),
         Gen0Copied(WithOld(g, old), marks, i, TRUE, 1,
                    (g.active_gen_1 + 1) % 2,
                    RamCopy(g.gen_0[g.active_gen_0], g.block_info[i],
                            old.dest)))

\* The copy of the promoting block i into the active gen1 space returned
\* cp: Err(_) runs collect_gen_1.
Gen0Promoted(g, marks, i, cp) ==
  IF ~IsErr(cp.res)
  THEN Gen0Copied(g, marks, i, FALSE, 1, g.active_gen_1, cp)
  ELSE Gen0AfterOld([g EXCEPT !.gen_1[g.active_gen_1] = cp.dest], marks, i,
                    collect_gen_1(marks, g.block_info, cp.dest,
                                  g.gen_1[(g.active_gen_1 + 1) % 2]))

CollectGen0Loop_Recopy(g, marks, i, collected) ==
  IF i >= MAX_BLOCKS
  THEN [res |-> OkUnit, h |-> g, old |-> collected, evac |-> <<>>,
        olds |-> 0, tried |-> g]
  ELSE IF ~(i \in marks /\ g.block_info[i].some)
  THEN CollectGen0Loop(g, marks, i + 1, collected)
  ELSE IF g.block_info[i].num_times_copied = MAX_COPIES
  THEN IF collected
       THEN Gen0Copied(g, marks, i, collected, 1,
                       (g.active_gen_1 + 1) % 2,
                       RamCopy(g.gen_0[g.active_gen_0], g.block_info[i],
                               g.gen_1[(g.active_gen_1 + 1) % 2]))
       ELSE Gen0Promoted(g, marks, i,
                         RamCopy(g.gen_0[g.active_gen_0], g.block_info[i],
                                 g.gen_1[g.active_gen_1]))
  ELSE IF g.block_info[i].num_times_copied < MAX_COPIES
  THEN Gen0Copied(g, marks, i, collected, 0,
                  (g.active_gen_0 + 1) % 2,
                  RamCopy(g.gen_0[g.active_gen_0], g.block_info[i],
                          g.gen_0[(g.active_gen_0 + 1) % 2]))
  ELSE Gen0Copied(g, marks, i, collected, 1, g.active_gen_1,
                  RamCopy(g.gen_1[g.active_gen_1], g.block_info[i],
                          g.gen_1[g.active_gen_1]))

CollectGen0Loop(g, marks, i, collected) ==
  IF i >= MAX_BLOCKS
  THEN [res |-> OkUnit, h |-> g, old |-> collected, evac |-> <<>>,
        olds |-> 0, tried |-> g]
  ELSE IF ~(i \in marks /\ g.block_info[i].some)
  THEN CollectGen0Loop(g, marks, i + 1, collected)
  ELSE IF g.block_info[i].num_times_copied = MAX_COPIES
  THEN IF collected
       THEN Gen0Copied(g, marks, i, collected, 1,
                       (g.active_gen_1 + 1) % 2,
                       RamCopy(g.gen_0[g.active_gen_0], g.block_info[i],
                               g.gen_1[(g.active_gen_1 + 1) % 2]))
       ELSE Gen0Promoted(g, marks, i,
                         RamCopy(g.gen_0[g.active_gen_0], g.block_info[i],
                                 g.gen_1[g.active_gen_1]))
  ELSE IF g.block_info[i].num_times_copied < MAX_COPIES
  THEN Gen0Copied(g, marks, i, collected, 0,
                  (g.active_gen_0 + 1) % 2,
                  RamCopy(g.gen_0[g.active_gen_0], g.block_info[i],
                          g.gen_0[(g.active_gen_0 + 1) % 2]))
  ELSE CollectGen0Loop(g, marks, i + 1, collected)

CollectGen0End_NoOldToggle(g, l) ==
  IF ~IsOk(l.res)
  THEN l
  ELSE [res |-> OkUnit,
        h |-> [l.h EXCEPT
                 !.gen_0[g.active_gen_0] = RamClear(l.h.gen_0[g.active_gen_0]),
                 !.active_gen_0 = (g.active_gen_0 + 1) % 2],
        old |-> l.old, evac |-> l.evac, olds |-> l.olds, tried |-> l.tried]

\* collect_gen_0 after the evacuation loop returned l: clear the old active
\* gen0 space, swap gen0, swap gen1 if collect_gen_1 ran.
CollectGen0End(g, l) ==
  IF ~IsOk(l.res)
  THEN l
  ELSE [res |-> OkUnit,
        h |-> [l.h EXCEPT
                 !.gen_0[g.active_gen_0] = RamClear(l.h.gen_0[g.active_gen_0]),
                 !.active_gen_0 = (g.active_gen_0 + 1) % 2,
                 !.active_gen_1 = IF l.old THEN (g.active_gen_1 + 1) % 2
                                  ELSE g.active_gen_1],
        old |-> l.old, evac |-> l.evac, olds |-> l.olds, tried |-> l.tried]

\* GenerationalHeap::collect_gen_0
collect_gen_0(g, marks) ==
  CollectGen0End(g,
    CollectGen0Loop([g EXCEPT !.block_info = PruneDead(g.block_info, marks)],
                    marks, 0, FALSE))

\* GenerationalHeap::load
GenLoad(g, p) ==
  LET hg == heap_and_gen_for(g, p.block_num)
      a == address(g.block_info, p)
  IN IF ~IsOk(hg) THEN hg
     ELSE IF ~IsOk(a) THEN a
     ELSE IF hg.b = 0 THEN RamLoad(g.gen_0[hg.a], a.a)
     ELSE RamLoad(g.gen_1[hg.a], a.a)

\* GenerationalHeap::store
GenStore(g, p, value) ==
  LET hg == heap_and_gen_for(g, p.block_num)
      a == address(g.block_info, p)
  IN IF ~IsOk(hg) THEN [res |-> hg, h |-> g]
     ELSE IF ~IsOk(a) THEN [res |-> a, h |-> g]
     ELSE IF hg.b = 0
     THEN LET st == RamStore(g.gen_0[hg.a], a.a, value)
          IN [res |-> st.res, h |-> [g EXCEPT !.gen_0[hg.a] = st.h]]
     ELSE LET st == RamStore(g.gen_1[hg.a], a.a, value)
          IN [res |-> st.res, h |-> [g EXCEPT !.gen_1[hg.a] = st.h]]

\* GenerationalHeap::malloc, the end: m is what the last malloc of the
\* active gen0 space returned.
GenInstall(g, num_words, block, log, m) ==
  IF m.res = Panic
  THEN [res |-> Panic, h |-> g, gcs |-> log]
  ELSE IF ~IsOk(m.res)
  THEN [res |-> OutOfMemory, h |-> g, gcs |-> log]
  ELSE [res |-> OkPointer(block, num_words),
        h |-> [g EXCEPT !.gen_0[g.active_gen_0] = m.h,
                        !.block_info[block] =
                           BlockInfo(m.res.a, num_words, 0)],
        gcs |-> log]

\* GenerationalHeap::malloc after the collection run for want of memory
\* returned c: `?`, then the second malloc of the active gen0 space.
GenRetry(g, num_words, marks, block, log, c) ==
  IF ~IsOk(c.res)
  THEN [res |-> c.res, h |-> c.h,
        gcs |-> Append(log, GcRec(g, marks, c.h, c.res, c.old, c.evac, c.olds,
                          c.tried))]
  ELSE GenInstall(c.h, num_words, block,
                  Append(log, GcRec(g, marks, c.h, c.res, c.old, c.evac, c.olds,
                          c.tried)),
                  RamMalloc(c.h.gen_0[c.h.active_gen_0], num_words))

\* GenerationalHeap::malloc after the first malloc of the active gen0 space
\* returned m: Err(_) runs a young collection.
GenTried(g, num_words, marks, block, log, m) ==
  IF ~IsErr(m.res)
  THEN GenInstall(g, num_words, block, log, m)
  ELSE GenRetry(g, num_words, marks, block, log, collect_gen_0(g, marks))

\* GenerationalHeap::malloc, second half: the index block is chosen, log
\* holds the collection already run by this call.
GenMallocMem(g, num_words, marks, block, log) ==
  GenTried(g, num_words, marks, block, log,
           RamMalloc(g.gen_0[g.active_gen_0], num_words))

GenCollected_Swallow(g, num_words, marks, c) ==
  IF available_block(c.h.block_info) = -1
  THEN [res |-> OutOfBlocks, h |-> c.h,
        gcs |-> <<GcRec(g, marks, c.h, c.res, c.old, c.evac, c.olds,
                          c.tried)>>]
  ELSE GenMallocMem(c.h, num_words, marks, available_block(c.h.block_info),
                    <<GcRec(g, marks, c.h, c.res, c.old, c.evac, c.olds,
                          c.tried)>>)

\* GenerationalHeap::malloc after the young collection run for want of a
\* block index returned c.
GenCollected(g, num_words, marks, c) ==
  IF ~IsOk(c.res)
  THEN [res |-> c.res, h |-> c.h,
        gcs |-> <<GcRec(g, marks, c.h, c.res, c.old, c.evac, c.olds,
                          c.tried)>>]
  ELSE IF available_block(c.h.block_info) = -1
  THEN [res |-> OutOfBlocks, h |-> c.h,
        gcs |-> <<GcRec(g, marks, c.h, c.res, c.old, c.evac, c.olds,
                          c.tried)>>]
  ELSE GenMallocMem(c.h, num_words, marks, available_block(c.h.block_info),
                    <<GcRec(g, marks, c.h, c.res, c.old, c.evac, c.olds,
                          c.tried)>>)

\* GenerationalHeap::malloc
GenMalloc(g, num_words, marks) ==
  IF num_words = 0
  THEN [res |-> ZeroSizeRequest, h |-> g, gcs |-> <<>>]
  ELSE IF available_block(g.block_info) # -1
  THEN GenMallocMem(g, num_words, marks, available_block(g.block_info), <<>>)
  ELSE GenCollected(g, num_words, marks, collect_gen_0(g, marks))

\* GenerationalHeap::assert_no_strays
GenNoStrays(g) ==
  /\ g.gen_0[(g.active_gen_0 + 1) % 2].next_address = 0
  /\ g.gen_1[(g.active_gen_1 + 1) % 2].next_address = 0

(***************************************************************************)
(* A client calling the GarbageCollectingHeap operations of one heap.      *)
(***************************************************************************)
\* The heap objects as the operators above take them.
Once == [heap |-> heap, block_info |-> block_info]
Copying == [heaps |-> heaps, block_info |-> block_info,
            active_heap |-> active_heap]
Gen == [gen_0 |-> gen_0, gen_1 |-> gen_1, block_info |-> block_info,
        active_gen_0 |-> active_gen_0, active_gen_1 |-> active_gen_1]

\* The pointers a client can present: Pointer::new(block, len) for any block
\* number up to the first illegal one and any len, and the pointers its
\* iteration yields (offsets below len; the first and the last one for the
\* largest len).
Pointers ==
  {p \in {Pointer(b, l, o) : b \in 0 .. MAX_BLOCKS, l \in 1 .. HEAP_SIZE,
                             o \in Addrs} : p.offset < p.len}
    \cup {Pointer(b, USIZE_MAX, o) : b \in 0 .. MAX_BLOCKS,
                                     o \in {0, USIZE_MAX - 1}}

\* What Tracer::trace can write: any boolean vector, given as the set of
\* indices set to true.
Marks == SUBSET Blocks

WithinCopied(table) ==
  \A b \in Blocks : table[b].num_times_copied <= MaxCopied

NoShadow == [o \in Addrs |-> -1]

Call(op, n, marks, p, v, r) ==
  [op |-> op, n |-> n, marks |-> marks, p |-> p, v |-> v, res |-> r]
NoPointer == Pointer(0, 0, 0)

\* GarbageCollectingHeap::new for each of the three heaps, in a build with
\* or without overflow checks.
Init ==
  /\ kind \in {"once", "copying", "gen"}
  /\ overflow_checks \in BOOLEAN
  /\ heap = RamHeapNew
  /\ heaps = CopyingNew.heaps
  /\ active_heap = CopyingNew.active_heap
  /\ gen_0 = GenNew.gen_0
  /\ gen_1 = GenNew.gen_1
  /\ active_gen_0 = GenNew.active_gen_0
  /\ active_gen_1 = GenNew.active_gen_1
  /\ block_info = BlockTableNew
  /\ ret = Call("new", 0, {}, NoPointer, 0, OkUnit)
  /\ gcs = <<>>
  /\ panicked = FALSE
  /\ minted = [b \in Blocks |-> 0]
  /\ shadow = [b \in Blocks |-> NoShadow]
  /\ calls = 0
  /\ loc = [b \in Blocks |-> <<0, 0>>]

\* Bookkeeping after malloc(n, tracer) returned r having run the collections
\* log (the tracer was consulted only if log is not empty): a block some
\* trace left unmarked is no longer followed, the block of the returned
\* pointer is followed from now on.
AfterMalloc(n, marks, r, log) ==
  /\ ret' = Call("malloc", n, IF log = <<>> THEN {} ELSE marks, NoPointer, 0, r)
  /\ gcs' = log
  /\ calls' = calls + 1
  /\ panicked' = (r = Panic)
  /\ minted' = [b \in Blocks |->
                  IF IsOk(r) /\ b = r.a THEN n
                  ELSE IF log # <<>> /\ b \notin marks THEN 0
                  ELSE minted[b]]
  /\ shadow' = [b \in Blocks |->
                  IF (IsOk(r) /\ b = r.a) \/ minted'[b] = 0 THEN NoShadow
                  ELSE shadow[b]]

\* Bookkeeping after store(p, v) returned r.
AfterStore(p, v, r) ==
  /\ ret' = Call("store", 0, {}, p, v, r)
  /\ gcs' = <<>>
  /\ calls' = calls + 1
  /\ panicked' = (r = Panic)
  /\ shadow' = IF IsOk(r) /\ p.block_num \in Blocks /\ p.offset \in Addrs
                  /\ minted[p.block_num] > 0
               THEN [shadow EXCEPT ![p.block_num][p.offset] = v]
               ELSE shadow
  /\ UNCHANGED <<minted, loc>>

\* Bookkeeping after load(p) returned r.
AfterLoad(p, r) ==
  /\ ret' = Call("load", 0, {}, p, 0, r)
  /\ gcs' = <<>>
  /\ calls' = calls + 1
  /\ panicked' = (r = Panic)
  /\ UNCHANGED <<minted, shadow, loc>>

\* The evacuations of the collections log, in the order they happened.
RECURSIVE AllEvac(_)
AllEvac(log) ==
  IF log = <<>> THEN <<>> ELSE Head(log).evac \o AllEvac(Tail(log))

\* Where each block's words are after the evacuations es, starting from l:
\* heap.copy(src, dest) puts the block's words into dest.
RECURSIVE Moved(_, _)
Moved(l, es) ==
  IF es = <<>> THEN l
  ELSE Moved([l EXCEPT ![Head(es).block] = <<Head(es).gen, Head(es).to>>],
             Tail(es))

\* Where each block's words are after a generational malloc that returned r
\* and left heap h: the new block is allocated in the active young space.
Resident(l, r, h) ==
  [b \in Blocks |->
     IF IsOk(r) /\ b = r.a THEN <<0, h.active_gen_0>>
     ELSE IF h.block_info[b].some THEN l[b]
     ELSE <<0, 0>>]

buildVars == <<kind, overflow_checks>>
onceVars == <<heap>>
copyingVars == <<heaps, active_heap>>
genVars == <<gen_0, gen_1, active_gen_0, active_gen_1>>
heapVars == <<heap, heaps, active_heap, gen_0, gen_1, active_gen_0,
              active_gen_1, block_info>>

(***************************************************************************)
(* OnceAndDoneHeap                                                         *)
(***************************************************************************)
OnceMallocCall(n, marks) ==
  /\ kind = "once"
  /\ ~panicked
  /\ calls < MaxCalls
  /\ \E r \in {OnceMalloc(Once, n)} :
        /\ heap' = r.h.heap
        /\ block_info' = r.h.block_info
        /\ AfterMalloc(n, marks, r.res, r.gcs)
  /\ UNCHANGED <<buildVars, copyingVars, genVars, loc>>

OnceStoreCall(p, v) ==
  /\ kind = "once"
  /\ ~panicked
  /\ calls < MaxCalls
  /\ \E r \in {OnceStore(Once, p, v)} :
        /\ heap' = r.h.heap
        /\ AfterStore(p, v, r.res)
  /\ UNCHANGED <<buildVars, copyingVars, genVars, block_info>>

OnceLoadCall(p) ==
  /\ kind = "once"
  /\ ~panicked
  /\ calls < MaxCalls
  /\ AfterLoad(p, OnceLoad(Once, p))
  /\ UNCHANGED <<buildVars, heapVars>>

NextOnce ==
  \/ \E n \in Sizes : OnceMallocCall(n, {})
  \/ \E p \in Pointers, v \in Words : OnceStoreCall(p, v)
  \/ \E p \in Pointers : OnceLoadCall(p)

\* OnceAndDoneHeap::new
InitOnce == Init /\ kind = "once"

SpecOnce == InitOnce /\ [][NextOnce]_vars

(***************************************************************************)
(* CopyingHeap                                                             *)
(***************************************************************************)
CopyingMallocCall(n, marks) ==
  /\ kind = "copying"
  /\ ~panicked
  /\ calls < MaxCalls
  /\ \E r \in {CopyingMalloc(Copying, n, marks)} :
        /\ WithinCopied(r.h.block_info)
        /\ heaps' = r.h.heaps
        /\ active_heap' = r.h.active_heap
        /\ block_info' = r.h.block_info
        /\ AfterMalloc(n, marks, r.res, r.gcs)
  /\ UNCHANGED <<buildVars, onceVars, genVars, loc>>

CopyingStoreCall(p, v) ==
  /\ kind = "copying"
  /\ ~panicked
  /\ calls < MaxCalls
  /\ \E r \in {CopyingStore(Copying, p, v)} :
        /\ heaps' = r.h.heaps
        /\ AfterStore(p, v, r.res)
  /\ UNCHANGED <<buildVars, onceVars, genVars, active_heap, block_info>>

CopyingLoadCall(p) ==
  /\ kind = "copying"
  /\ ~panicked
  /\ calls < MaxCalls
  /\ AfterLoad(p, CopyingLoad(Copying, p))
  /\ UNCHANGED <<buildVars, heapVars>>

NextCopying ==
  \/ \E n \in Sizes, marks \in Marks : CopyingMallocCall(n, marks)
  \/ \E p \in Pointers, v \in Words : CopyingStoreCall(p, v)
  \/ \E p \in Pointers : CopyingLoadCall(p)

\* CopyingHeap::new
InitCopying == Init /\ kind = "copying"

SpecCopying == InitCopying /\ [][NextCopying]_vars

(***************************************************************************)
(* GenerationalHeap                                                        *)
(***************************************************************************)
GenMallocCall(n, marks) ==
  /\ kind = "gen"
  /\ ~panicked
  /\ calls < MaxGenCalls
  /\ \E r \in {GenMalloc(Gen, n, marks)} :
        /\ WithinCopied(r.h.block_info)
        /\ gen_0' = r.h.gen_0
        /\ gen_1' = r.h.gen_1
        /\ active_gen_0' = r.h.active_gen_0
        /\ active_gen_1' = r.h.active_gen_1
        /\ block_info' = r.h.block_info
        /\ AfterMalloc(n, marks, r.res, r.gcs)
        /\ loc' = Resident(Moved(loc, AllEvac(r.gcs)), r.res, r.h)
  /\ UNCHANGED <<buildVars, onceVars, copyingVars>>

GenStoreCall(p, v) ==
  /\ kind = "gen"
  /\ ~panicked
  /\ calls < MaxCalls
  /\ \E r \in {GenStore(Gen, p, v)} :
        /\ gen_0' = r.h.gen_0
        /\ gen_1' = r.h.gen_1
        /\ AfterStore(p, v, r.res)
  /\ UNCHANGED <<buildVars, onceVars, copyingVars, active_gen_0, active_gen_1,
                 block_info>>

GenLoadCall(p) ==
  /\ kind = "gen"
  /\ ~panicked
  /\ calls < MaxCalls
  /\ AfterLoad(p, GenLoad(Gen, p))
  /\ UNCHANGED <<buildVars, heapVars>>

NextGen ==
  \/ \E n \in Sizes, marks \in Marks : GenMallocCall(n, marks)
  \/ \E p \in Pointers, v \in Words : GenStoreCall(p, v)
  \/ \E p \in Pointers : GenLoadCall(p)

\* GenerationalHeap::new
InitGen == Init /\ kind = "gen"

SpecGen == InitGen /\ [][NextGen]_vars

(***************************************************************************)
(* A client of a GenerationalHeap that only calls malloc, for longer: the  *)
(* block table ages further than under SpecGen.  No cap on                 *)
(* num_times_copied is needed, the number of calls bounds it.              *)
(***************************************************************************)
GenAllocCall(n, marks) ==
  /\ kind = "gen"
  /\ ~panicked
  /\ calls < MaxAllocCalls
  /\ \E r \in {GenMalloc(Gen, n, marks)} :
        /\ gen_0' = r.h.gen_0
        /\ gen_1' = r.h.gen_1
        /\ active_gen_0' = r.h.active_gen_0
        /\ active_gen_1' = r.h.active_gen_1
        /\ block_info' = r.h.block_info
        /\ AfterMalloc(n, marks, r.res, r.gcs)
        /\ loc' = Resident(Moved(loc, AllEvac(r.gcs)), r.res, r.h)
  /\ UNCHANGED <<buildVars, onceVars, copyingVars>>

NextGenAlloc == \E n \in Sizes, marks \in Marks : GenAllocCall(n, marks)

SpecGenAlloc == InitGen /\ [][NextGenAlloc]_vars

\* A client of any of the three heaps.
Next == NextOnce \/ NextCopying \/ NextGen

Spec == Init /\ [][Next]_vars

(***************************************************************************)
(* RamHeap used directly (inside the crate): one RamHeap, held in `heap`.  *)
(* ret.n is the size or address passed, shadow[0][a] the word last stored  *)
(* at address a (-1 if none was).                                          *)
(***************************************************************************)
\* Addresses a caller passes to load and store: inside the array, one past
\* it, beyond it, and the largest usize.
Addresses == (0 .. (HEAP_SIZE + 1)) \cup {USIZE_MAX}

\* Bookkeeping after a RamHeap call op(n) or op(n, v) returned r.
AfterRam(op, n, v, r) ==
  /\ ret' = Call(op, n, {}, NoPointer, v, r)
  /\ gcs' = <<>>
  /\ calls' = calls + 1
  /\ panicked' = (r = Panic)
  /\ UNCHANGED <<buildVars, copyingVars, genVars, block_info, minted, loc>>

RamMallocCall(n) ==
  /\ kind = "ram"
  /\ ~panicked
  /\ calls < MaxCalls
  /\ \E r \in {RamMalloc(heap, n)} :
        /\ heap' = r.h
        /\ AfterRam("malloc", n, 0, r.res)
  /\ UNCHANGED shadow

RamStoreCall(a, v) ==
  /\ kind = "ram"
  /\ ~panicked
  /\ calls < MaxCalls
  /\ \E r \in {RamStore(heap, a, v)} :
        /\ heap' = r.h
        /\ shadow' = IF IsOk(r.res) THEN [shadow EXCEPT ![0][a] = v]
                     ELSE shadow
        /\ AfterRam("store", a, v, r.res)

RamLoadCall(a) ==
  /\ kind = "ram"
  /\ ~panicked
  /\ calls < MaxCalls
  /\ AfterRam("load", a, 0, RamLoad(heap, a))
  /\ UNCHANGED <<heap, shadow>>

RamClearCall ==
  /\ kind = "ram"
  /\ ~panicked
  /\ calls < MaxCalls
  /\ heap' = RamClear(heap)
  /\ AfterRam("clear", 0, 0, OkUnit)
  /\ UNCHANGED shadow

NextRam ==
  \/ \E n \in Sizes : RamMallocCall(n)
  \/ \E a \in Addresses, v \in Words : RamStoreCall(a, v)
  \/ \E a \in Addresses : RamLoadCall(a)
  \/ RamClearCall

\* RamHeap::new, in a build with or without overflow checks.
InitRam ==
  /\ kind = "ram"
  /\ overflow_checks \in BOOLEAN
  /\ heap = RamHeapNew
  /\ heaps = CopyingNew.heaps
  /\ active_heap = CopyingNew.active_heap
  /\ gen_0 = GenNew.gen_0
  /\ gen_1 = GenNew.gen_1
  /\ active_gen_0 = GenNew.active_gen_0
  /\ active_gen_1 = GenNew.active_gen_1
  /\ block_info = BlockTableNew
  /\ ret = Call("new", 0, {}, NoPointer, 0, OkUnit)
  /\ gcs = <<>>
  /\ panicked = FALSE
  /\ minted = [b \in Blocks |-> 0]
  /\ shadow = [b \in Blocks |-> NoShadow]
  /\ calls = 0
  /\ loc = [b \in Blocks |-> <<0, 0>>]

SpecRam == InitRam /\ [][NextRam]_vars

(***************************************************************************)
(* The heap of the current state through the GarbageCollectingHeap trait.  *)
(***************************************************************************)
\* load(p) on a heap value h of the constructed kind.
LoadOn(h, p) ==
  CASE kind = "once" -> OnceLoad(h, p)
    [] kind = "copying" -> CopyingLoad(h, p)
    [] kind = "gen" -> GenLoad(h, p)

\* store(p, v) on a heap value h of the constructed kind.
StoreOn(h, p, v) ==
  CASE kind = "once" -> OnceStore(h, p, v)
    [] kind = "copying" -> CopyingStore(h, p, v)
    [] kind = "gen" -> GenStore(h, p, v)

\* The heap object of the current state.
Heap ==
  CASE kind = "once" -> Once
    [] kind = "copying" -> Copying
    [] kind = "gen" -> Gen

\* The RamHeap load and store use for block b of heap h (the residency rule
\* of heap_and_gen_for for the generational heap): <<generation, index>>.
HostOf(h, b) ==
  CASE kind = "once" -> <<0, 0>>
    [] kind = "copying" -> <<0, h.active_heap>>
    [] kind = "gen" ->
         IF h.block_info[b].num_times_copied > MAX_COPIES
         THEN <<1, h.active_gen_1>>
         ELSE <<0, h.active_gen_0>>

\* The RamHeap named by <<generation, index>> in heap h.
SpaceOf(h, s) ==
  CASE kind = "once" -> h.heap
    [] kind = "copying" -> h.heaps[s[2]]
    [] kind = "gen" -> IF s[1] = 0 THEN h.gen_0[s[2]] ELSE h.gen_1[s[2]]

RECURSIVE SumSizes(_, _)
SumSizes(table, bs) ==
  IF bs = {} THEN 0
  ELSE LET b == CHOOSE x \in bs : TRUE
       IN table[b].size + SumSizes(table, bs \ {b})

\* Occupied slots of heap h hosted by space s.
HostedBy(h, s) == {b \in blocks_in_use(h.block_info) : HostOf(h, b) = s}

(***************************************************************************)
(* C1  Pointer stability (CopyingHeap, GenerationalHeap): while every      *)
(* trace since malloc returned a pointer has marked its block, load        *)
(* through that pointer returns Ok with the word last stored there,        *)
(* whatever calls were made in between.                                    *)
(***************************************************************************)
C1_PointerStability ==
  (kind \in {"copying", "gen"} /\ ~panicked) =>
    \A b \in Blocks : \A o \in Addrs :
      (minted[b] > 0 /\ o < minted[b] /\ shadow[b][o] # -1) =>
        LoadOn(Heap, Pointer(b, minted[b], o)) = Ok(shadow[b][o])

(***************************************************************************)
(* C2  No strays: after every call that returned, the inactive space of a  *)
(* CopyingHeap and both inactive spaces of a GenerationalHeap have         *)
(* next_address = 0.                                                       *)
(***************************************************************************)
C2_NoStrays ==
  ~panicked =>
    /\ kind = "copying" => CopyingNoStrays(Copying)
    /\ kind = "gen" => GenNoStrays(Gen)

(***************************************************************************)
(* C3  Non-overlap: two distinct occupied slots hosted by the same space   *)
(* have disjoint address ranges [start, start + size).                     *)
(***************************************************************************)
Disjoint(x, y) ==
  x.start + x.size <= y.start \/ y.start + y.size <= x.start

C3_NonOverlap ==
  ~panicked =>
    \A b1 \in blocks_in_use(block_info) : \A b2 \in blocks_in_use(block_info) :
      (b1 # b2 /\ HostOf(Heap, b1) = HostOf(Heap, b2)) =>
        Disjoint(block_info[b1], block_info[b2])

(***************************************************************************)
(* C4  Round trip: for every pointer with the block's own len and an       *)
(* offset below it into an occupied slot, store(p, v) returns Ok and the   *)
(* load(p) that follows returns Ok(v).                                     *)
(***************************************************************************)
C4_RoundTrip ==
  ~panicked =>
    \A p \in Pointers : \A v \in Words :
      (p.block_num \in blocks_in_use(block_info)
         /\ p.len = block_info[p.block_num].size) =>
        LET st == StoreOn(Heap, p, v)
        IN IsOk(st.res) /\ LoadOn(st.h, p) = Ok(v)

(***************************************************************************)
(* C5  Compaction: right after a collection, in every space that hosts a   *)
(* live block the sizes of the blocks it hosts add up to its next_address. *)
(***************************************************************************)
Compacted(h) ==
  \A b \in blocks_in_use(h.block_info) :
    SumSizes(h.block_info, HostedBy(h, HostOf(h, b)))
      = SpaceOf(h, HostOf(h, b)).next_address

C5_Compaction ==
  \A k \in 1 .. Len(gcs) : IsOk(gcs[k].res) => Compacted(gcs[k].post)

(***************************************************************************)
(* C6  CopyingHeap malloc(n), n > 0, with a block index free before or     *)
(* after the collection run for want of one: the call returns OutOfMemory  *)
(* exactly when the sizes of the blocks the tracer reports live plus n     *)
(* exceed HEAP_SIZE, and succeeds otherwise (an exact fit included).  The  *)
(* tracer reports a set of occupied blocks.                                *)
(***************************************************************************)
LiveWords(table, marks) == SumSizes(table, marks \cap blocks_in_use(table))

C6_CopyingOutOfMemory ==
  (kind = "copying" /\ ~panicked) =>
    \A n \in Sizes \ {0} : \A marks \in SUBSET blocks_in_use(block_info) :
      \A r \in {CopyingMalloc(Copying, n, marks)} :
        r.res # OutOfBlocks =>
          /\ (r.res = OutOfMemory)
               <=> (LiveWords(block_info, marks) + n > HEAP_SIZE)
          /\ (LiveWords(block_info, marks) + n <= HEAP_SIZE) => IsOk(r.res)

(***************************************************************************)
(* C7  CopyingHeap malloc(n), n > 0, returns OutOfBlocks exactly when      *)
(* every slot is occupied at the call and the tracer marks every one.      *)
(***************************************************************************)
C7_CopyingOutOfBlocks ==
  (kind = "copying" /\ ~panicked) =>
    \A n \in Sizes \ {0} : \A marks \in Marks :
      \A r \in {CopyingMalloc(Copying, n, marks)} :
        (r.res = OutOfBlocks)
          <=> (blocks_in_use(block_info) = Blocks /\ marks = Blocks)

(***************************************************************************)
(* C8  BlockTable::address reports the first failing check in the order    *)
(* IllegalBlock, UnallocatedBlock, OffsetTooBig, MisalignedPointer, and    *)
(* start + offset (a usize) when none fails.                               *)
(***************************************************************************)
\* Pointer values of any shape, an offset at or beyond len included.
AnyPointers ==
  {Pointer(b, l, o) : b \in 0 .. MAX_BLOCKS,
                      l \in (1 .. (HEAP_SIZE + 1)) \cup {USIZE_MAX},
                      o \in (0 .. HEAP_SIZE) \cup {USIZE_MAX - 1, USIZE_MAX}}

C8_AddressCascade ==
  \A p \in AnyPointers :
    \A r \in {address(block_info, p)} :
    \A e \in {block_info[IF p.block_num < MAX_BLOCKS THEN p.block_num ELSE 0]} :
      /\ p.block_num >= MAX_BLOCKS
           => r = IllegalBlock(p.block_num, MAX_BLOCKS - 1)
      /\ (p.block_num < MAX_BLOCKS /\ ~e.some)
           => r = UnallocatedBlock(p.block_num)
      /\ (p.block_num < MAX_BLOCKS /\ e.some /\ p.offset >= e.size)
           => r = OffsetTooBig(p.offset, p.block_num, e.size)
      /\ (p.block_num < MAX_BLOCKS /\ e.some /\ p.offset < e.size
            /\ p.len # e.size)
           => r = MisalignedPointer(p.len, e.size, p.block_num)
      /\ (p.block_num < MAX_BLOCKS /\ e.some /\ p.offset < e.size
            /\ p.len = e.size)
           => r = Ok(Wrap(e.start + p.offset))

\* A load through a pointer that is both beyond the block and of the wrong
\* len reported OffsetTooBig.
C8_Witness ==
  /\ ret.op = "load"
  /\ ret.p.block_num \in blocks_in_use(block_info)
  /\ ret.p.offset >= block_info[ret.p.block_num].size
  /\ ret.p.len # block_info[ret.p.block_num].size
  /\ ret.res.kind = "OffsetTooBig"

(***************************************************************************)
(* C9 as stated: after a collection completes, the occupied slots are      *)
(* exactly the indices the tracer marked, and were occupied before.        *)
(***************************************************************************)
C9_LiveEqualsMarked ==
  \A k \in 1 .. Len(gcs) :
    IsOk(gcs[k].res) =>
      /\ blocks_in_use(gcs[k].post.block_info) = gcs[k].marks
      /\ blocks_in_use(gcs[k].post.block_info)
           \subseteq blocks_in_use(gcs[k].pre.block_info)

(***************************************************************************)
(* C9 amended: after a collection completes, the occupied slots are        *)
(* exactly the marked indices that were occupied before the collection.    *)
(***************************************************************************)
C9_LiveEqualsMarkedOccupied ==
  \A k \in 1 .. Len(gcs) :
    IsOk(gcs[k].res) =>
      blocks_in_use(gcs[k].post.block_info)
        = gcs[k].marks \cap blocks_in_use(gcs[k].pre.block_info)

\* A collection completed although the tracer marked an empty slot, and it
\* both kept a block and dropped one.
C9_Witness ==
  \E k \in 1 .. Len(gcs) :
    /\ IsOk(gcs[k].res)
    /\ ~(gcs[k].marks \subseteq blocks_in_use(gcs[k].pre.block_info))
    /\ blocks_in_use(gcs[k].post.block_info) # {}

(***************************************************************************)
(* C10  Dangling pointers: a retained pointer whose block a trace has left *)
(* unmarked fails with UnallocatedBlock on every later load and store.     *)
(* The helpers below say what a step's call did to a block index.          *)
(***************************************************************************)
\* Every load and store through a pointer into block b fails with
\* UnallocatedBlock(b).
AllUnallocated(b) ==
  \A p \in {q \in Pointers : q.block_num = b} : \A v \in Words :
    /\ LoadOn(Heap, p) = UnallocatedBlock(b)
    /\ StoreOn(Heap, p, v).res = UnallocatedBlock(b)

\* The call of this step ran a trace that left b unmarked.
DroppedInStep(b) ==
  ret'.op = "malloc" /\ gcs' # <<>> /\ b \notin ret'.marks /\ ~panicked'

\* The call of this step returned a pointer to block b.
MintedInStep(b) == ret'.op = "malloc" /\ IsOk(ret'.res) /\ ret'.res.a = b

(***************************************************************************)
(* C10 read with the reuse of block indices that the spec describes: from  *)
(* the return of a malloc whose trace left the block unmarked, until a     *)
(* malloc returns a pointer to the same index, every load and store        *)
(* through a pointer into that block fails with UnallocatedBlock,          *)
(* whatever the collection that ran the trace returned.                    *)
(***************************************************************************)
C10_DanglingUntilReuse ==
  [][\A b \in Blocks :
       ((DroppedInStep(b) \/ (~block_info[b].some /\ ~panicked'))
          /\ ~MintedInStep(b)) => AllUnallocated(b)']_vars

(***************************************************************************)
(* C11  Stale handles: once a block index holds a block of another size    *)
(* (a collection reclaimed it and a malloc of a different size reused      *)
(* it), address, load and store through any pointer whose len is the       *)
(* earlier size fail with OffsetTooBig(offset, block, size) when the       *)
(* offset is at or beyond the new size and with                            *)
(* MisalignedPointer(len, size, block) otherwise.  Stated for every        *)
(* pointer whose len differs from the size of the block its index holds.   *)
(***************************************************************************)
\* What a pointer of another len into occupied block b must get.
StaleError(p) ==
  IF p.offset >= block_info[p.block_num].size
  THEN OffsetTooBig(p.offset, p.block_num, block_info[p.block_num].size)
  ELSE MisalignedPointer(p.len, block_info[p.block_num].size, p.block_num)

C11_StaleHandle ==
  ~panicked =>
    \A p \in AnyPointers :
      (p.block_num \in blocks_in_use(block_info)
         /\ p.len # block_info[p.block_num].size) =>
        /\ address(block_info, p) = StaleError(p)
        /\ LoadOn(Heap, p) = StaleError(p)
        /\ \A v \in Words : StoreOn(Heap, p, v).res = StaleError(p)

\* A malloc collected, reclaimed an index and reused it for a block of
\* another size; the pointer malloc had returned for the earlier block is
\* now misaligned.
C11_Witness ==
  /\ ret.op = "malloc" /\ IsOk(ret.res) /\ Len(gcs) > 0 /\ ~panicked
  /\ gcs[1].pre.block_info[ret.res.a].some
  /\ gcs[1].pre.block_info[ret.res.a].size # ret.n
  /\ LoadOn(Heap, PointerNew(ret.res.a, gcs[1].pre.block_info[ret.res.a].size))
       = MisalignedPointer(gcs[1].pre.block_info[ret.res.a].size, ret.n,
                           ret.res.a)

(***************************************************************************)
(* C12  Generational residency (GenerationalHeap): after a young           *)
(* collection that returned Ok, every live block copied at most MAX_COPIES *)
(* times has its words in the active gen_0 space; after an old collection, *)
(* every block in the active gen_1 space has been copied more than         *)
(* MAX_COPIES times; and load and store resolve every live block in the    *)
(* space its words are in.                                                 *)
(***************************************************************************)
YoungOk == gcs # <<>> /\ IsOk(gcs[Len(gcs)].res)

C12_Residency ==
  (kind = "gen" /\ ~panicked /\ YoungOk) =>
    \A b \in blocks_in_use(block_info) :
      /\ block_info[b].num_times_copied <= MAX_COPIES =>
           loc[b] = <<0, active_gen_0>>
      /\ (gcs[Len(gcs)].old /\ loc[b] = <<1, active_gen_1>>) =>
           block_info[b].num_times_copied > MAX_COPIES
      /\ HostOf(Heap, b) = loc[b]

(***************************************************************************)
(* C13  Promotion monotonicity: num_times_copied is 0 when malloc installs *)
(* a block; over any call, a block that stays live has its                 *)
(* num_times_copied increased by exactly the number of RamHeap::copy calls *)
(* that evacuated it (so it never decreases, and a block no collection     *)
(* copied keeps its count); store and load leave the block table alone.    *)
(***************************************************************************)
\* How many of the evacuations es copied block b.
RECURSIVE EvacCount(_, _)
EvacCount(b, es) ==
  IF es = <<>> THEN 0
  ELSE (IF Head(es).block = b THEN 1 ELSE 0) + EvacCount(b, Tail(es))

C13_PromotionMonotone ==
  [][/\ \A b \in Blocks :
          MintedInStep(b) =>
            (block_info'[b].some /\ block_info'[b].num_times_copied = 0)
     /\ \A b \in Blocks :
          (block_info[b].some /\ block_info'[b].some /\ ~MintedInStep(b)) =>
            block_info'[b].num_times_copied =
              block_info[b].num_times_copied + EvacCount(b, AllEvac(gcs'))
     /\ ret'.op \in {"store", "load"} => block_info' = block_info]_vars

\* A malloc ran collections that copied a surviving block twice, and another
\* surviving block (a gen_1 resident, or one whose copy failed) not at all.
C13_Witness ==
  /\ ret.op = "malloc" /\ gcs # <<>> /\ ~panicked
  /\ \E b \in blocks_in_use(block_info) :
        /\ gcs[1].pre.block_info[b].some
        /\ EvacCount(b, AllEvac(gcs)) = 2
        /\ block_info[b].num_times_copied =
             gcs[1].pre.block_info[b].num_times_copied + 2
  /\ \E b \in blocks_in_use(block_info) :
        /\ gcs[1].pre.block_info[b].some
        /\ EvacCount(b, AllEvac(gcs)) = 0
        /\ block_info[b].num_times_copied =
             gcs[1].pre.block_info[b].num_times_copied

(***************************************************************************)
(* C14  No IllegalAddress through the public interface: in every reachable *)
(* state of any of the three heaps, load and store through any pointer     *)
(* value never return IllegalAddress.                                      *)
(***************************************************************************)
C14_NoIllegalAddress ==
  ~panicked =>
    \A p \in AnyPointers :
      /\ LoadOn(Heap, p).kind # "IllegalAddress"
      /\ \A v \in Words : StoreOn(Heap, p, v).res.kind # "IllegalAddress"

(***************************************************************************)
(* C15  RamHeap::store(a, v): for every a >= HEAP_SIZE (a == HEAP_SIZE     *)
(* included) it returns IllegalAddress(a, HEAP_SIZE) and leaves the words  *)
(* and the cursor unchanged; for every a < HEAP_SIZE it returns Ok, writes *)
(* v at a and nothing else, and leaves the cursor unchanged, also when     *)
(* a >= next_address.                                                      *)
(***************************************************************************)
C15_RamStore ==
  (kind = "ram" /\ ~panicked) =>
    \A a \in Addresses, v \in Words :
      \A r \in {RamStore(heap, a, v)} :
        IF a >= HEAP_SIZE
        THEN r.res = IllegalAddress(a, HEAP_SIZE) /\ r.h = heap
        ELSE /\ r.res = OkUnit
             /\ r.h.next_address = heap.next_address
             /\ r.h.heap = [heap.heap EXCEPT ![a] = v]

(***************************************************************************)
(* C16  RamHeap::malloc(n): ZeroSizeRequest if n = 0; OutOfMemory if       *)
(* next_address + n > HEAP_SIZE; otherwise (next_address + n = HEAP_SIZE   *)
(* included) Ok(old next_address) with next_address advanced by exactly n. *)
(* On either error the space is unchanged, and in every reachable state    *)
(* 0 <= next_address <= HEAP_SIZE.                                         *)
(***************************************************************************)
C16_RamMalloc ==
  (kind = "ram" /\ ~panicked) =>
    /\ heap.next_address \in 0 .. HEAP_SIZE
    /\ \A n \in Sizes :
         \A r \in {RamMalloc(heap, n)} :
           IF n = 0
           THEN r.res = ZeroSizeRequest /\ r.h = heap
           ELSE IF heap.next_address + n > HEAP_SIZE
           THEN r.res = OutOfMemory /\ r.h = heap
           ELSE /\ r.res = Ok(heap.next_address)
                /\ r.h = [heap EXCEPT !.next_address = @ + n]

(***************************************************************************)
(* C17  RamHeap::load(a) returns IllegalAddress(a, next_address) if and    *)
(* only if a >= next_address (0 on a fresh or cleared RamHeap, HEAP_SIZE   *)
(* on a full one); otherwise it returns the word last stored at a (0 if    *)
(* none was stored since new); load never changes the RamHeap.             *)
(***************************************************************************)
\* The word last stored at address a, 0 from RamHeap::new if none was.
LastStored(a) == IF shadow[0][a] = -1 THEN 0 ELSE shadow[0][a]

LoadsRight ==
  (kind = "ram" /\ ~panicked) =>
    \A a \in Addresses :
      \A r \in {RamLoad(heap, a)} :
        /\ r.kind = "IllegalAddress" <=> a >= heap.next_address
        /\ a >= heap.next_address => r = IllegalAddress(a, heap.next_address)
        /\ a < heap.next_address => r = Ok(LastStored(a))

C17_RamLoad ==
  [][/\ LoadsRight /\ LoadsRight'
     /\ (kind = "ram" /\ ret'.op = "load") =>
          /\ ret'.res = RamLoad(heap, ret'.n)
          /\ heap' = heap]_vars

\* load returned the word stored earlier at an address below the cursor,
\* and the address at the cursor is refused.
C17_Witness ==
  /\ kind = "ram" /\ ret.op = "load" /\ ret.res = Ok(1)
  /\ shadow[0][ret.n] = 1
  /\ heap.next_address = 1
  /\ RamLoad(heap, 1) = IllegalAddress(1, 1)

(***************************************************************************)
(* C18  Frame of load, store and address: a load leaves the whole heap     *)
(* (block table, active indices, cursors, words) unchanged; a store that   *)
(* returns IllegalBlock, UnallocatedBlock, OffsetTooBig or                 *)
(* MisalignedPointer leaves it unchanged too; a store that returns Ok      *)
(* changes exactly the word at the address the block table resolves, in    *)
(* the space that hosts the block, and nothing else.                       *)
(***************************************************************************)
Misuse(r) ==
  r.kind \in {"IllegalBlock", "UnallocatedBlock", "OffsetTooBig",
              "MisalignedPointer"}

\* Heap h with the word at address ad of space s set to v, all else equal.
WithWord(h, s, ad, v) ==
  CASE kind = "once" -> [h EXCEPT !.heap.heap[ad] = v]
    [] kind = "copying" -> [h EXCEPT !.heaps[s[2]].heap[ad] = v]
    [] kind = "gen" ->
         IF s[1] = 0 THEN [h EXCEPT !.gen_0[s[2]].heap[ad] = v]
         ELSE [h EXCEPT !.gen_1[s[2]].heap[ad] = v]

C18_Frame ==
  [][/\ ret'.op = "load" =>
          /\ Heap' = Heap
          /\ ret'.res = LoadOn(Heap, ret'.p)
     /\ ret'.op = "store" =>
          \A r \in {StoreOn(Heap, ret'.p, ret'.v)} :
            /\ ret'.res = r.res
            /\ Misuse(r.res) =>
                 (Heap' = Heap /\ r.res = address(block_info, ret'.p))
            /\ IsOk(r.res) =>
                 /\ IsOk(address(block_info, ret'.p))
                 /\ Heap' = WithWord(Heap, HostOf(Heap, ret'.p.block_num),
                                     address(block_info, ret'.p).a, ret'.v)]_vars

\* A store into a promoted block returned Ok and changed a word of the
\* active gen_1 space.
C18_Witness ==
  /\ kind = "gen" /\ ret.op = "store" /\ ret.res = OkUnit /\ ret.v = 1
  /\ block_info[ret.p.block_num].some
  /\ block_info[ret.p.block_num].num_times_copied > MAX_COPIES
  /\ gen_1[active_gen_1].heap[address(block_info, ret.p).a] = 1

(***************************************************************************)
(* C19  malloc(0) on CopyingHeap and GenerationalHeap returns              *)
(* ZeroSizeRequest in every state, whatever the tracer would mark, also    *)
(* when the block table or the active space is full, without running a     *)
(* collection and leaving the heap unchanged.                              *)
(***************************************************************************)
\* malloc(n, tracer) on a heap value h of the constructed kind.
MallocOn(h, n, marks) ==
  CASE kind = "once" -> OnceMalloc(h, n)
    [] kind = "copying" -> CopyingMalloc(h, n, marks)
    [] kind = "gen" -> GenMalloc(h, n, marks)

C19_ZeroSize ==
  (kind \in {"copying", "gen"} /\ ~panicked) =>
    \A marks \in Marks :
      \A r \in {MallocOn(Heap, 0, marks)} :
        /\ r.res = ZeroSizeRequest
        /\ r.gcs = <<>>
        /\ r.h = Heap

\* malloc(0) returned ZeroSizeRequest with every block index in use and the
\* active space full, and no collection ran.
C19_Witness ==
  /\ kind \in {"copying", "gen"}
  /\ ret.op = "malloc" /\ ret.n = 0 /\ ret.res = ZeroSizeRequest
  /\ gcs = <<>>
  /\ blocks_in_use(block_info) = Blocks
  /\ SpaceOf(Heap, IF kind = "gen" THEN <<0, active_gen_0>>
                   ELSE <<0, active_heap>>).next_address = HEAP_SIZE

(***************************************************************************)
(* C20  OnceAndDoneHeap never reclaims: malloc returns OutOfBlocks         *)
(* whenever every slot is occupied, whatever n is (before ZeroSizeRequest  *)
(* and OutOfMemory); with an empty slot it returns the ZeroSizeRequest or  *)
(* OutOfMemory of RamHeap::malloc; a malloc that returns an error leaves   *)
(* the block table and the RamHeap unchanged; a malloc that returns Ok     *)
(* puts {start = old next_address, size = n, num_times_copied = 0} in the  *)
(* lowest empty slot; and no call ever changes or removes an occupied      *)
(* slot.  What RamHeap::malloc does with a sum that overflows usize (C16)  *)
(* passes through unchanged: its panic is the call's panic, its Ok is      *)
(* installed.                                                              *)
(***************************************************************************)
\* The lowest-numbered empty slot of a table that has one.
LowestEmpty(table) ==
  CHOOSE b \in Blocks :
    ~table[b].some /\ \A c \in Blocks : c < b => table[c].some

C20_OnceNeverReclaims ==
  [][kind = "once" =>
       /\ \A b \in Blocks :
            block_info[b].some => block_info'[b] = block_info[b]
       /\ ret'.op = "malloc" =>
            \A m \in {RamMalloc(heap, ret'.n)} :
              IF blocks_in_use(block_info) = Blocks
              THEN /\ ret'.res = OutOfBlocks
                   /\ heap' = heap /\ block_info' = block_info
              ELSE IF ~IsOk(m.res)
              THEN /\ ret'.res = m.res
                   /\ ret'.res \in {ZeroSizeRequest, OutOfMemory, Panic}
                   /\ heap' = heap /\ block_info' = block_info
              ELSE /\ ret'.res =
                        OkPointer(LowestEmpty(block_info), ret'.n)
                   /\ block_info' =
                        [block_info EXCEPT ![LowestEmpty(block_info)] =
                           BlockInfo(heap.next_address, ret'.n, 0)]
                   /\ heap' = m.h]_vars

\* With every slot occupied, malloc(0) returned OutOfBlocks, not
\* ZeroSizeRequest, and the first block is still as it was installed.
C20_Witness ==
  /\ kind = "once" /\ ret.op = "malloc" /\ ret.n = 0
  /\ ret.res = OutOfBlocks
  /\ blocks_in_use(block_info) = Blocks
  /\ block_info[0] = BlockInfo(0, 1, 0)

(***************************************************************************)
(* C21  Within one collect_gen_0 call collect_gen_1 runs at most once; a   *)
(* collect_gen_0 that fails after collect_gen_1 has run returns            *)
(* OutOfMemory, and the malloc that called it returns that OutOfMemory     *)
(* without running another collection.                                     *)
(***************************************************************************)
\* The blocks collect_gen_0 r had to copy and did not: marked, occupied,
\* young when it started, and not in its copies.
Uncopied(r) ==
  {i \in r.marks :
     /\ i \in Blocks
     /\ r.pre.block_info[i].some
     /\ r.pre.block_info[i].num_times_copied <= MAX_COPIES
     /\ EvacCount(i, r.evac) = 0}

\* The block at which the failed collect_gen_0 r stopped.
FailedAt(r) == CHOOSE i \in Uncopied(r) : \A j \in Uncopied(r) : i <= j

\* collect_gen_0 r stopped at a promoting block that does not fit in the
\* inactive gen1 space as the copy that failed found it.
PromotionDoesNotFit(r) ==
  /\ Uncopied(r) # {}
  /\ r.pre.block_info[FailedAt(r)].num_times_copied = MAX_COPIES
  /\ r.tried.gen_1[(r.pre.active_gen_1 + 1) % 2].next_address
       + r.pre.block_info[FailedAt(r)].size > HEAP_SIZE

C21_OldAtMostOnce ==
  (kind = "gen" /\ ~panicked) =>
    \A k \in 1 .. Len(gcs) :
      /\ gcs[k].olds <= 1
      /\ gcs[k].old <=> gcs[k].olds = 1
      /\ ~IsOk(gcs[k].res) => (k = Len(gcs) /\ ret.res = gcs[k].res)
      /\ (gcs[k].old /\ ~IsOk(gcs[k].res) /\ PromotionDoesNotFit(gcs[k])) =>
           gcs[k].res = OutOfMemory

\* A malloc returned the OutOfMemory of a young collection in which
\* collect_gen_1 ran once and a promoting block still did not fit.
C21_Witness ==
  /\ kind = "gen" /\ ret.op = "malloc" /\ ret.res = OutOfMemory
  /\ gcs # <<>> /\ ~panicked
  /\ gcs[Len(gcs)].old /\ gcs[Len(gcs)].olds = 1
  /\ gcs[Len(gcs)].res = OutOfMemory
  /\ PromotionDoesNotFit(gcs[Len(gcs)])

(***************************************************************************)
(* C22  A young collection in which collect_gen_1 does not run leaves the  *)
(* descriptor and the words of every live gen1 resident (num_times_copied  *)
(* > MAX_COPIES) unchanged, does not toggle active_gen_1, leaves the       *)
(* inactive gen1 space alone, and changes the active gen1 space only by    *)
(* appending the blocks it promotes.                                       *)
(***************************************************************************)
\* The sizes of the blocks the copies es put into a gen1 space, summed.
RECURSIVE PromotedSize(_, _)
PromotedSize(table, es) ==
  IF es = <<>> THEN 0
  ELSE (IF Head(es).gen = 1 THEN table[Head(es).block].size ELSE 0)
         + PromotedSize(table, Tail(es))

YoungFrame(r) ==
  /\ r.post.active_gen_1 = r.pre.active_gen_1
  /\ r.post.gen_1[(r.pre.active_gen_1 + 1) % 2] =
       r.pre.gen_1[(r.pre.active_gen_1 + 1) % 2]
  /\ \A b \in r.marks :
       (r.pre.block_info[b].some
          /\ r.pre.block_info[b].num_times_copied > MAX_COPIES) =>
         r.post.block_info[b] = r.pre.block_info[b]
  /\ \A a \in Addrs :
       a < r.pre.gen_1[r.pre.active_gen_1].next_address =>
         r.post.gen_1[r.pre.active_gen_1].heap[a] =
           r.pre.gen_1[r.pre.active_gen_1].heap[a]
  /\ r.post.gen_1[r.pre.active_gen_1].next_address =
       r.pre.gen_1[r.pre.active_gen_1].next_address
         + PromotedSize(r.pre.block_info, r.evac)

C22_YoungFrame ==
  (kind = "gen" /\ ~panicked) =>
    \A k \in 1 .. Len(gcs) : ~gcs[k].old => YoungFrame(gcs[k])

\* A young collection without collect_gen_1 promoted a block into the
\* active gen1 space next to a live gen1 resident, which stayed as it was.
C22_Witness ==
  /\ kind = "gen" /\ gcs # <<>> /\ ~panicked
  /\ ~gcs[1].old /\ IsOk(gcs[1].res)
  /\ PromotedSize(gcs[1].pre.block_info, gcs[1].evac) > 0
  /\ \E b \in gcs[1].marks :
        /\ gcs[1].pre.block_info[b].some
        /\ gcs[1].pre.block_info[b].num_times_copied > MAX_COPIES
        /\ block_info[b] = gcs[1].pre.block_info[b]

(***************************************************************************)
(* C23  A young collection that returns Ok clears the gen0 space that was  *)
(* active and toggles active_gen_0; it toggles active_gen_1 exactly when   *)
(* collect_gen_1 ran in it, and then the gen1 space that was active has    *)
(* cursor 0 and every gen1 resident still in the table was last copied     *)
(* into the newly active gen1 space.  active_heap, active_gen_0 and        *)
(* active_gen_1 are always 0 or 1.                                         *)
(***************************************************************************)
\* Where the copies es put block b last (<<-1, -1>> if they did not copy it).
RECURSIVE LastTo(_, _)
LastTo(b, es) ==
  IF es = <<>> THEN <<-1, -1>>
  ELSE IF es[Len(es)].block = b THEN <<es[Len(es)].gen, es[Len(es)].to>>
  ELSE LastTo(b, SubSeq(es, 1, Len(es) - 1))

YoungToggles(r) ==
  /\ r.post.gen_0[r.pre.active_gen_0].next_address = 0
  /\ r.post.active_gen_0 = (r.pre.active_gen_0 + 1) % 2
  /\ r.post.active_gen_0 # r.pre.active_gen_0
  /\ r.post.active_gen_1 # r.pre.active_gen_1 <=> r.old
  /\ r.old =>
       /\ r.post.active_gen_1 = (r.pre.active_gen_1 + 1) % 2
       /\ r.post.gen_1[r.pre.active_gen_1].next_address = 0
       /\ \A b \in blocks_in_use(r.post.block_info) :
            r.post.block_info[b].num_times_copied > MAX_COPIES =>
              LastTo(b, r.evac) = <<1, r.post.active_gen_1>>

C23_Toggles ==
  /\ active_heap \in {0, 1}
  /\ active_gen_0 \in {0, 1}
  /\ active_gen_1 \in {0, 1}
  /\ (kind = "gen" /\ ~panicked) =>
       \A k \in 1 .. Len(gcs) : IsOk(gcs[k].res) => YoungToggles(gcs[k])

\* A young collection in which collect_gen_1 ran returned Ok, with a gen1
\* resident that was in the old active gen1 space and survived.
C23_Witness ==
  /\ kind = "gen" /\ gcs # <<>> /\ ~panicked
  /\ gcs[1].old /\ IsOk(gcs[1].res)
  /\ \E b \in blocks_in_use(gcs[1].post.block_info) :
        /\ gcs[1].pre.block_info[b].some
        /\ gcs[1].pre.block_info[b].num_times_copied > MAX_COPIES
        /\ LastTo(b, gcs[1].evac) = <<1, gcs[1].post.active_gen_1>>

(***************************************************************************)
(* C24  After a CopyingHeap collection that returned Ok the live blocks    *)
(* lie in the new active space one after the other from address 0, in      *)
(* ascending block-index order: the start of each is the sum of the sizes  *)
(* of the live blocks of lower index; and each holds, offset by offset,    *)
(* the words it held before the collection.                                *)
(***************************************************************************)
Compact(r) ==
  \A i \in blocks_in_use(r.post.block_info) :
    /\ r.post.block_info[i].start =
         SumSizes(r.post.block_info,
                  {j \in blocks_in_use(r.post.block_info) : j < i})
    /\ r.post.block_info[i].size = r.pre.block_info[i].size
    /\ r.post.block_info[i].start + r.post.block_info[i].size <= HEAP_SIZE
    /\ r.pre.block_info[i].start + r.pre.block_info[i].size <= HEAP_SIZE
    /\ \A o \in Addrs :
         o < r.post.block_info[i].size =>
           r.post.heaps[r.post.active_heap].heap[r.post.block_info[i].start + o]
             = r.pre.heaps[r.pre.active_heap].heap[r.pre.block_info[i].start + o]

C24_CopyingCompacts ==
  (kind = "copying" /\ ~panicked) =>
    \A k \in 1 .. Len(gcs) : IsOk(gcs[k].res) => Compact(gcs[k])

\* A collection dropped block 0 and moved block 1, holding the word 1,
\* from address 1 down to address 0.
C24_Witness ==
  /\ kind = "copying" /\ gcs # <<>> /\ ~panicked
  /\ IsOk(gcs[1].res)
  /\ gcs[1].pre.block_info[0].some /\ ~gcs[1].post.block_info[0].some
  /\ gcs[1].pre.block_info[1].start = 1
  /\ gcs[1].post.block_info[1].some
  /\ gcs[1].post.block_info[1].start = 0
  /\ gcs[1].pre.heaps[gcs[1].pre.active_heap].heap[1] = 1
  /\ gcs[1].post.heaps[gcs[1].post.active_heap].heap[0] = 1

(***************************************************************************)
(* C25  Every malloc runs a bounded number of collections: on CopyingHeap  *)
(* and GenerationalHeap at most two per call, and two only when the first  *)
(* ran because no block index was free and the second because the active   *)
(* space refused the request; on GenerationalHeap at most two calls of     *)
(* collect_gen_1 per malloc.  A malloc of these heaps returns OutOfMemory  *)
(* only after a collection of that same call.                              *)
(***************************************************************************)
\* The calls of collect_gen_1 made by the collections log.
RECURSIVE OldsIn(_)
OldsIn(log) == IF log = <<>> THEN 0 ELSE Head(log).olds + OldsIn(Tail(log))

C25_BoundedCollections ==
  (kind \in {"copying", "gen"}) =>
    /\ Len(gcs) <= 2
    /\ OldsIn(gcs) <= 2
    /\ gcs # <<>> => ret.op = "malloc"
    /\ Len(gcs) = 2 =>
         /\ blocks_in_use(gcs[1].pre.block_info) = Blocks
         /\ IsOk(gcs[1].res)
         /\ gcs[2].pre = gcs[1].post
         /\ blocks_in_use(gcs[2].pre.block_info) # Blocks
    /\ (ret.op = "malloc" /\ ret.res = OutOfMemory) => gcs # <<>>

\* A GenerationalHeap malloc ran two young collections, collect_gen_1 ran
\* in at least one of them, and the request still did not fit.
C25_Witness ==
  /\ kind = "gen" /\ ret.op = "malloc" /\ ret.res = OutOfMemory
  /\ Len(gcs) = 2 /\ OldsIn(gcs) >= 1

(***************************************************************************)
(* C26  In a CopyingHeap, and for the blocks of a GenerationalHeap with    *)
(* num_times_copied <= MAX_COPIES, the num_times_copied of a live block    *)
(* is the number of collections (young collections) that completed since   *)
(* malloc installed it: it is 0 at installation and every call raises it   *)
(* by the number of collections of that call that returned Ok, two for a   *)
(* malloc that ran two.                                                    *)
(***************************************************************************)
\* How many of the collections log returned Ok.
RECURSIVE OkCount(_)
OkCount(log) ==
  IF log = <<>> THEN 0
  ELSE (IF IsOk(Head(log).res) THEN 1 ELSE 0) + OkCount(Tail(log))

C26_CopiesCountCollections ==
  [][(kind \in {"copying", "gen"} /\ ~panicked') =>
       \A b \in Blocks :
         /\ MintedInStep(b) => block_info'[b].num_times_copied = 0
         /\ (block_info[b].some /\ block_info'[b].some /\ ~MintedInStep(b)
               /\ (kind = "gen" =>
                     block_info'[b].num_times_copied <= MAX_COPIES)) =>
              block_info'[b].num_times_copied =
                block_info[b].num_times_copied + OkCount(gcs')]_vars

(***************************************************************************)
(* C27  In a GenerationalHeap the num_times_copied of a live block never   *)
(* exceeds MAX_COPIES + 1 + the number of calls of collect_gen_1 since     *)
(* malloc installed it.  Step by step: malloc installs a block with count  *)
(* 0, and a call leaves a block that stays installed with a count of at    *)
(* most max(count before, MAX_COPIES + 1) + the calls of collect_gen_1 the *)
(* call made.  A block that a young collection promoted into the active    *)
(* gen1 space before another block of that collection made it call         *)
(* collect_gen_1 is copied twice by that young collection.                 *)
(***************************************************************************)
\* The blocks the young collection r promoted into the gen1 space that was
\* active when it started.
PromotedFirst(r) ==
  {b \in Blocks :
     /\ r.pre.block_info[b].some
     /\ r.pre.block_info[b].num_times_copied = MAX_COPIES
     /\ \E k \in 1..Len(r.evac) :
          /\ r.evac[k].block = b /\ r.evac[k].gen = 1
          /\ r.evac[k].to = r.pre.active_gen_1}

\* The blocks r promoted before its call of collect_gen_1 were copied twice.
CopiedTwice(r) ==
  r.olds = 1 =>
    \A b \in PromotedFirst(r) :
      /\ EvacCount(b, r.evac) = 2
      /\ r.post.block_info[b].some
      /\ r.post.block_info[b].num_times_copied = MAX_COPIES + 2

CopyBound(before, olds) ==
  (IF before > MAX_COPIES + 1 THEN before ELSE MAX_COPIES + 1) + olds

C27_CopyBound ==
  [][kind = "gen" =>
       /\ \A b \in Blocks :
            /\ MintedInStep(b) => block_info'[b].num_times_copied = 0
            /\ (block_info[b].some /\ block_info'[b].some
                  /\ ~MintedInStep(b)) =>
                 block_info'[b].num_times_copied <=
                   CopyBound(block_info[b].num_times_copied, OldsIn(gcs'))
       /\ \A k \in 1..Len(gcs') : CopiedTwice(gcs'[k])]_vars

\* A block has survived two calls of collect_gen_1 since it was promoted:
\* it has MAX_COPIES + 3 copies, and the call that just returned made the
\* second of those calls of collect_gen_1 and copied the block in it.
C27_Witness ==
  /\ kind = "gen" /\ ret.op = "malloc" /\ ~panicked
  /\ OldsIn(gcs) >= 1
  /\ \E b \in Blocks :
       /\ block_info[b].some
       /\ block_info[b].num_times_copied = MAX_COPIES + 3
       /\ EvacCount(b, AllEvac(gcs)) >= 1

\* A young collection promoted a block, was made to call collect_gen_1 by
\* a later block, and left the first block with MAX_COPIES + 2 copies, one
\* more than any block has without a call of collect_gen_1.
C27_WitnessCopiedTwice ==
  /\ kind = "gen" /\ ret.op = "malloc" /\ ~panicked
  /\ \E k \in 1..Len(gcs) :
       /\ gcs[k].olds = 1 /\ IsOk(gcs[k].res)
       /\ \E b \in PromotedFirst(gcs[k]) :
            /\ EvacCount(b, gcs[k].evac) = 2
            /\ block_info[b].some
            /\ block_info[b].num_times_copied = MAX_COPIES + 2

(***************************************************************************)
(* C28  Handle uniqueness.  A malloc of any heap that returns Ok returns   *)
(* Pointer(block, n, 0) where block was the lowest-numbered empty slot     *)
(* when the index was chosen (before any collection, or after the          *)
(* collection that ran because no slot was empty) and is not an index the  *)
(* tracer reported live; the collection run after the index was chosen     *)
(* leaves that slot empty; the descriptor is installed in an empty slot    *)
(* and no other slot changes with it; afterwards the number of occupied    *)
(* slots is the number of live blocks + 1.                                 *)
(***************************************************************************)
\* The table malloc chose the index from in this step.
TableAtChoice ==
  IF available_block(block_info) # -1 \/ gcs' = <<>>
  THEN block_info
  ELSE gcs'[1].post.block_info

\* The table as the last collection of this step's malloc left it.
TableAtInstall ==
  IF gcs' = <<>> THEN block_info ELSE gcs'[Len(gcs')].post.block_info

\* The collections this step's malloc ran after it had chosen the index.
AfterChoice ==
  {k \in 1..Len(gcs') : ~(k = 1 /\ available_block(block_info) = -1)}

\* The indices the tracer marked that were occupied when collection k of
\* this step started.
LiveAt(k) == ret'.marks \cap blocks_in_use(gcs'[k].pre.block_info)

\* The live blocks at the installation: as the tracer marked them
\* (asMarked), or the marked ones that were occupied.
LiveBlocks(asMarked) ==
  IF gcs' = <<>> THEN blocks_in_use(block_info)
  ELSE IF asMarked THEN ret'.marks
  ELSE LiveAt(Len(gcs'))

HandleUnique(asMarked) ==
  (ret'.op = "malloc" /\ IsOk(ret'.res)) =>
    /\ blocks_in_use(TableAtChoice) # Blocks
    /\ \A b \in {available_block(TableAtChoice)} :
         /\ b = LowestEmpty(TableAtChoice)
         /\ ret'.res = OkPointer(b, ret'.n)
         /\ asMarked => b \notin ret'.marks
         /\ \A k \in 1..Len(gcs') : b \notin LiveAt(k)
         /\ \A k \in AfterChoice : ~gcs'[k].post.block_info[b].some
         /\ ~TableAtInstall[b].some
         /\ \A c \in Blocks \ {b} : block_info'[c] = TableAtInstall[c]
         /\ block_info'[b].some
         /\ block_info'[b].size = ret'.n
         /\ block_info'[b].num_times_copied = 0
         /\ Cardinality(blocks_in_use(block_info')) =
              Cardinality(LiveBlocks(asMarked)) + 1

C28_HandleUnique == [][HandleUnique(TRUE)]_vars

\* C28 as amended: collect_gen_0 skips a mark on an empty slot, so the
\* index a GenerationalHeap returns may be one the tracer marked while the
\* slot was empty; it is never a marked index whose slot was occupied when
\* a collection of the call started, and the live blocks counted are the
\* marked indices whose slot was occupied.  On the other heaps the returned
\* index is not marked.
C28_HandleUniqueOccupied == [][HandleUnique(kind # "gen")]_vars

\* A malloc with no empty slot ran a collection that emptied both slots,
\* chose slot 0, ran a second collection because the request did not fit,
\* and installed the block in slot 0 as the only occupied slot.
C28_Witness ==
  /\ ret.op = "malloc" /\ IsOk(ret.res) /\ ret.res.a = 0
  /\ Len(gcs) = 2
  /\ blocks_in_use(gcs[1].pre.block_info) = Blocks
  /\ ~gcs[2].post.block_info[0].some
  /\ blocks_in_use(block_info) = {0}

\* A GenerationalHeap malloc returned index 1, which the tracer of its
\* collection had marked while slot 1 was empty.
C28_WitnessMarkedEmpty ==
  /\ kind = "gen" /\ ret.op = "malloc" /\ IsOk(ret.res)
  /\ ret.res.a = 1 /\ 1 \in ret.marks /\ Len(gcs) = 1
  /\ ~gcs[1].pre.block_info[1].some

====
